---- MODULE Spec2Model ----
(***************************************************************************)
(* SingleSCD40: a monitoring thread (run_monitoring) polling an SCD4x      *)
(* sensor, edge-triggered Slack alerts, Adafruit IO telemetry with retry,  *)
(* and a Flask settings route rewriting SingleSensorSettings.conf while    *)
(* the monitoring thread runs.                                             *)
(*                                                                         *)
(* Text is modelled as a sequence of one-character strings, so that        *)
(* int(), float(), str() and strip() are computed and not assumed.         *)
(* A float is held in tenths (86.0 is 860): every float the model feeds    *)
(* in has at most one fractional digit.                                    *)
(***************************************************************************)
EXTENDS Integers, Sequences, FiniteSets, TLC

VARIABLES
    confFile,              \* SingleSensorSettings.conf on disk
    shutdown_event,        \* threading.Event, line 38
    adafruit_io_client,    \* global client, line 41 (FALSE is None)
    alert_states,          \* global dict, lines 44-48
    monPc,                 \* position of the monitoring thread
    settings,              \* run_monitoring's local, read once at line 244
    minutes_between_reads, \* run_monitoring's local, line 266
    last_read_time,        \* run_monitoring's local, line 267
    current_time,          \* run_monitoring's local, line 271
    reading,               \* temperature_c, humidity, co2 of the tick
    now,                   \* time.time(), in seconds
    tickKind,              \* what the current loop iteration turned out to be
    tickLog,               \* what the current loop iteration has done so far
    pubCall,               \* one send_to_adafruit call on its own: its inputs and what it did
    iters,                 \* loop iterations begun so far
    mainPc,                \* position of the main thread
    exitStatus,            \* the process's exit status once it has exited
    hpc,                   \* position of each request handler
    hreq,                  \* the request each handler is serving
    hcur,                  \* settings_route's current_settings
    hnew,                  \* settings_route's new_settings
    resp,                  \* the last response of each handler
    requests,              \* requests accepted so far
    rebootCalls            \* calls of os.system('sudo shutdown -r now')

vars == <<confFile, shutdown_event, adafruit_io_client, alert_states, monPc,
          settings, minutes_between_reads, last_read_time, current_time,
          reading, now, tickKind, tickLog, pubCall, iters, mainPc, exitStatus,
          hpc, hreq, hcur, hnew, resp, requests, rebootCalls>>

monVars == <<adafruit_io_client, alert_states, monPc, settings,
             minutes_between_reads, last_read_time, current_time, reading,
             now, tickKind, tickLog, pubCall, iters>>

webVars == <<hpc, hreq, hcur, hnew, resp, requests, rebootCalls>>

-----------------------------------------------------------------------------
(* Bounds of the model *)

MaxIters == 2
MaxRequests == 1
StartTime == 1000

-----------------------------------------------------------------------------
(* Text and the conversions of Python and configparser *)

Digits == <<"0", "1", "2", "3", "4", "5", "6", "7", "8", "9">>

IsDigit(c) == \E i \in 1..Len(Digits) : Digits[i] = c

DigitVal(c) == (CHOOSE i \in 1..Len(Digits) : Digits[i] = c) - 1

IsSpace(c) == c = " "

RECURSIVE LStrip(_)
LStrip(s) == IF s # <<>> /\ IsSpace(Head(s)) THEN LStrip(Tail(s)) ELSE s

RECURSIVE RStrip(_)
RStrip(s) ==
    IF s # <<>> /\ IsSpace(s[Len(s)]) THEN RStrip(SubSeq(s, 1, Len(s) - 1)) ELSE s

\* str.strip()
Strip(s) == RStrip(LStrip(s))

AllDigits(s) == s # <<>> /\ \A i \in 1..Len(s) : IsDigit(s[i])

\* the number a run of decimal digits writes
DigitsVal(s) ==
    LET v[i \in 0..Len(s)] == IF i = 0 THEN 0 ELSE v[i - 1] * 10 + DigitVal(s[i])
    IN  v[Len(s)]

HasSign(s) == s # <<>> /\ Head(s) \in {"-", "+"}

Unsigned(s) == IF HasSign(s) THEN Tail(s) ELSE s

SignOf(s) == IF s # <<>> /\ Head(s) = "-" THEN -1 ELSE 1

\* int(value): surrounding blanks, an optional sign, decimal digits;
\* anything else raises ValueError
IntOk(s) == \E u \in {Unsigned(Strip(s))} : AllDigits(u)

IntVal(s) == SignOf(Strip(s)) * DigitsVal(Unsigned(Strip(s)))

DotAt(s) == {i \in 1..Len(s) : s[i] = "."}

\* float(value): surrounding blanks, an optional sign, digits with at most
\* one point and at least one digit; anything else raises ValueError
FloatOk(s) ==
    \E u \in {Unsigned(Strip(s))} :
        \/ AllDigits(u)
        \/ \E d \in DotAt(u) :
              /\ DotAt(u) = {d}
              /\ \E ip \in {SubSeq(u, 1, d - 1)}, fp \in {SubSeq(u, d + 1, Len(u))} :
                    /\ ip = <<>> \/ AllDigits(ip)
                    /\ fp = <<>> \/ AllDigits(fp)
                    /\ ip # <<>> \/ fp # <<>>

\* the value of float(value), in tenths
FloatVal(s) ==
    LET Of(u, d) ==
            LET ip == SubSeq(u, 1, d - 1)
                fp == SubSeq(u, d + 1, Len(u)) IN
            DigitsVal(ip) * 10 + (IF fp = <<>> THEN 0 ELSE DigitVal(fp[1]))
    IN  CHOOSE v \in {SignOf(Strip(s)) * Of(u, IF DotAt(u) = {} THEN Len(u) + 1
                                               ELSE CHOOSE i \in DotAt(u) : TRUE) :
                         u \in {Unsigned(Strip(s))}} : TRUE

RECURSIVE NatStr(_)
NatStr(n) ==
    IF n < 10 THEN <<Digits[n + 1]>> ELSE NatStr(n \div 10) \o <<Digits[(n % 10) + 1]>>

Abs(n) == IF n < 0 THEN -n ELSE n

\* str(v) of an int
IntStr(n) == (IF n < 0 THEN <<"-">> ELSE <<>>) \o NatStr(Abs(n))

\* str(v) of a float held in tenths: 860 is "86.0"
FloatStr(t) ==
    (IF t < 0 THEN <<"-">> ELSE <<>>) \o NatStr(Abs(t) \div 10) \o <<".">>
        \o NatStr(Abs(t) % 10)

-----------------------------------------------------------------------------
(* The configuration record *)

KeyOrder ==
    <<"SENSOR_LOCATION_NAME", "MINUTES_BETWEEN_READS", "SENSOR_THRESHOLD_TEMP",
      "SENSOR_LOWER_THRESHOLD_TEMP", "THRESHOLD_COUNT", "SLACK_API_TOKEN",
      "SLACK_CHANNEL", "ADAFRUIT_IO_USERNAME", "ADAFRUIT_IO_KEY",
      "ADAFRUIT_IO_GROUP_NAME", "ADAFRUIT_IO_TEMP_FEED",
      "ADAFRUIT_IO_HUMIDITY_FEED", "ADAFRUIT_IO_CO2_FEED",
      "SENSOR_CO2_THRESHOLD">>

Keys == {KeyOrder[i] : i \in 1..Len(KeyOrder)}

FloatKeys == {"SENSOR_THRESHOLD_TEMP", "SENSOR_LOWER_THRESHOLD_TEMP", "SENSOR_CO2_THRESHOLD"}

IntKeys == {"MINUTES_BETWEEN_READS", "THRESHOLD_COUNT"}

KeyType(k) == IF k \in FloatKeys THEN "float" ELSE IF k \in IntKeys THEN "int" ELSE "str"

\* a typed Python value: a number in n (a float in tenths), text in s
PyNum(t, n) == [t |-> t, n |-> n, s |-> <<>>]

PyText(s) == [t |-> "str", n |-> 0, s |-> s]

\* a key a dict does not hold
PyNone == [t |-> "none", n |-> 0, s |-> <<>>]

\* does text s convert to type t, and to what
ConvOk(t, s) == IF t = "float" THEN FloatOk(s) ELSE IF t = "int" THEN IntOk(s) ELSE TRUE

Conv(t, s) ==
    IF t = "float" THEN PyNum(t, FloatVal(s))
    ELSE IF t = "int" THEN PyNum(t, IntVal(s))
    ELSE PyText(Strip(s))

\* str(v)
PyStr(x) ==
    IF x.t = "float" THEN FloatStr(x.n) ELSE IF x.t = "int" THEN IntStr(x.n) ELSE x.s

\* The file: whether it holds the [General] section, which options the
\* section has, and their text. A file just opened for writing holds nothing.
NoText == [k \in Keys |-> <<>>]

EmptyFile == [sec |-> FALSE, has |-> {}, opts |-> NoText]

FileOf(has, opts) ==
    [sec |-> TRUE, has |-> has, opts |-> [k \in Keys |-> IF k \in has THEN opts[k] ELSE <<>>]]

NoSettings == [k \in Keys |-> PyNone]

\* index of the first key, in the order of line 91, that the loop of lines
\* 101-107 fails on; 0 when it fails on none
KeyFails(file, k) ==
    \/ k \notin file.has
    \/ ~ConvOk(KeyType(k), file.opts[k])

FirstFailing(file) ==
    LET bad == {i \in 1..Len(KeyOrder) : KeyFails(file, KeyOrder[i])} IN
    IF bad = {} THEN 0 ELSE CHOOSE i \in bad : \A j \in bad : i <= j

\* does read_settings_from_conf return, rather than raise ValueError
ReadOk(file) == file.sec /\ FirstFailing(file) = 0

\* read_settings_from_conf: the settings, or the ValueError it raises
read_settings_from_conf(file) ==
    IF ReadOk(file)
    THEN [ok |-> TRUE, key |-> "",
          settings |-> [k \in Keys |-> Conv(KeyType(k), Strip(file.opts[k]))]]
    ELSE [ok |-> FALSE,
          key |-> IF file.sec THEN KeyOrder[FirstFailing(file)] ELSE KeyOrder[1],
          settings |-> NoSettings]

-----------------------------------------------------------------------------
(* The record on disk when the process starts, and the requests it is sent *)

Txt_lab == <<"l", "a", "b">>
Txt_1 == <<"1">>
Txt_0 == <<"0">>
Txt_3 == <<"3">>
Txt_86_0 == <<"8", "6", ".", "0">>
Txt_50_0 == <<"5", "0", ".", "0">>
Txt_1000_0 == <<"1", "0", "0", "0", ".", "0">>
Txt_77 == <<" ", "7", "7">>
Txt_abc == <<"a", "b", "c">>
Txt_1_5 == <<"1", ".", "5">>

DefaultOpts ==
    [k \in Keys |->
        CASE k = "MINUTES_BETWEEN_READS" -> Txt_1
          [] k = "SENSOR_THRESHOLD_TEMP" -> Txt_86_0
          [] k = "SENSOR_LOWER_THRESHOLD_TEMP" -> Txt_50_0
          [] k = "THRESHOLD_COUNT" -> Txt_3
          [] k = "SENSOR_CO2_THRESHOLD" -> Txt_1000_0
          [] OTHER -> Txt_lab]

\* the file at process start: complete, or lacking a required key
InitFiles == {FileOf(Keys, DefaultOpts), FileOf(Keys \ {"SENSOR_CO2_THRESHOLD"}, DefaultOpts)}

\* a form is the sequence of (key, value) pairs of request.form.items()
Item(k, v) == <<k, v>>

\* the settings page's form: every key, with two values edited
EditedForm ==
    [i \in 1..Len(KeyOrder) |->
        Item(KeyOrder[i],
             CASE KeyOrder[i] = "SENSOR_THRESHOLD_TEMP" -> Txt_77
               [] KeyOrder[i] = "MINUTES_BETWEEN_READS" -> Txt_0
               [] OTHER -> DefaultOpts[KeyOrder[i]])]

Request(form, action) == [form |-> form, action |-> action]

\* the POST requests the model sends: the whole form; one key alone; a
\* good value followed by one that does not convert; a key that is no
\* setting followed by a value that does not convert
Requests ==
    { Request(EditedForm, "reboot"),
      Request(<<Item("SENSOR_THRESHOLD_TEMP", Txt_77)>>, "save"),
      Request(<<Item("SENSOR_THRESHOLD_TEMP", Txt_77), Item("THRESHOLD_COUNT", Txt_1_5)>>,
              "reboot"),
      Request(<<Item("BOGUS", Txt_1), Item("SENSOR_CO2_THRESHOLD", Txt_abc)>>, "save") }

Handlers == {"h1"}

\* what the sensor can hold: temperature in tenths of a degree Celsius,
\* relative humidity in tenths of a percent, CO2 in ppm
Sample(c, h, p) == [temperature_c |-> c, humidity |-> h, co2 |-> p]

\* 25 C is 77 F, 30 C is 86 F, 10 C is 50 F
Samples == {Sample(250, 400, 800), Sample(300, 400, 800), Sample(100, 400, 1200)}

SinkOutcomes == {"ok", "RequestError", "Exception"}

\* no send_to_adafruit call is being looked at on its own
NoCall == [client |-> FALSE, outs |-> <<>>, done |-> FALSE, calls |-> 0, sleeps |-> 0,
           ok |-> FALSE, raised |-> FALSE]

-----------------------------------------------------------------------------
(* Pure functions of the monitoring thread *)

\* celsius_to_fahrenheit, on tenths of a degree
celsius_to_fahrenheit(c) == ((c * 9) \div 5) + 320

Quantities == {"high_temp", "low_temp", "high_co2"}

\* is_temp_high, is_temp_low, is_co2_high
Condition(q, rd, st) ==
    CASE q = "high_temp" ->
            celsius_to_fahrenheit(rd.temperature_c) >= st["SENSOR_THRESHOLD_TEMP"].n
      [] q = "low_temp" ->
            celsius_to_fahrenheit(rd.temperature_c) <= st["SENSOR_LOWER_THRESHOLD_TEMP"].n
      [] q = "high_co2" -> rd.co2 * 10 >= st["SENSOR_CO2_THRESHOLD"].n

\* send_slack_alert: reads the file again for the token and the channel, posts
\* the message, and returns False on any exception
send_slack_alert(file, delivered) == ReadOk(file) /\ delivered

max_retries == 3
retry_delay == 2

\* RetryLoop with range(max_retries + 1) at line 150
RECURSIVE RetryLoop_OneMore(_, _)
RetryLoop_OneMore(outs, attempt) ==
    IF attempt >= max_retries + 1 THEN [calls |-> 0, sleeps |-> 0, exit |-> "none"]
    ELSE IF outs[attempt + 1] = "ok" THEN [calls |-> 1, sleeps |-> 0, exit |-> "True"]
    ELSE IF outs[attempt + 1] = "RequestError"
    THEN IF attempt < max_retries
         THEN LET r == RetryLoop_OneMore(outs, attempt + 1) IN
              [calls |-> r.calls + 1, sleeps |-> r.sleeps + 1, exit |-> r.exit]
         ELSE [calls |-> 1, sleeps |-> 0, exit |-> "RequestError"]
    ELSE [calls |-> 1, sleeps |-> 0, exit |-> "Exception"]

\* RetryLoop with `except Exception` in place of `except RequestError` at
\* line 156: every failure of the sink is retried
RECURSIVE RetryLoop_RetryAny(_, _)
RetryLoop_RetryAny(outs, attempt) ==
    IF attempt >= max_retries THEN [calls |-> 0, sleeps |-> 0, exit |-> "none"]
    ELSE IF outs[attempt + 1] = "ok" THEN [calls |-> 1, sleeps |-> 0, exit |-> "True"]
    ELSE IF attempt < max_retries - 1
         THEN LET r == RetryLoop_RetryAny(outs, attempt + 1) IN
              [calls |-> r.calls + 1, sleeps |-> r.sleeps + 1, exit |-> r.exit]
         ELSE [calls |-> 1, sleeps |-> 0, exit |-> outs[attempt + 1]]

\* RetryLoop without the test of line 157: the sleep is taken after the
\* last attempt too, and the error is raised after it
RECURSIVE RetryLoop_SleepAlways(_, _)
RetryLoop_SleepAlways(outs, attempt) ==
    IF attempt >= max_retries THEN [calls |-> 0, sleeps |-> 0, exit |-> "none"]
    ELSE IF outs[attempt + 1] = "ok" THEN [calls |-> 1, sleeps |-> 0, exit |-> "True"]
    ELSE IF outs[attempt + 1] = "RequestError"
    THEN IF attempt < max_retries - 1
         THEN LET r == RetryLoop_SleepAlways(outs, attempt + 1) IN
              [calls |-> r.calls + 1, sleeps |-> r.sleeps + 1, exit |-> r.exit]
         ELSE [calls |-> 1, sleeps |-> 1, exit |-> "RequestError"]
    ELSE [calls |-> 1, sleeps |-> 0, exit |-> "Exception"]

\* the retry loop of lines 150-161 from attempt number `attempt` on:
\* the sink calls made, the sleeps taken, and how the loop is left
RECURSIVE RetryLoop(_, _)
RetryLoop(outs, attempt) ==
    IF attempt >= max_retries THEN [calls |-> 0, sleeps |-> 0, exit |-> "none"]
    ELSE IF outs[attempt + 1] = "ok" THEN [calls |-> 1, sleeps |-> 0, exit |-> "True"]
    ELSE IF outs[attempt + 1] = "RequestError"
    THEN IF attempt < max_retries - 1
         THEN LET r == RetryLoop(outs, attempt + 1) IN
              [calls |-> r.calls + 1, sleeps |-> r.sleeps + 1, exit |-> r.exit]
         ELSE [calls |-> 1, sleeps |-> 0, exit |-> "RequestError"]
    ELSE [calls |-> 1, sleeps |-> 0, exit |-> "Exception"]

\* send_to_adafruit: what one publish did and returned
send_to_adafruit(client, outs) ==
    IF ~client
    THEN [calls |-> 0, sleeps |-> 0, ok |-> FALSE, raised |-> FALSE]
    ELSE LET r == RetryLoop(outs, 0) IN
         [calls |-> r.calls, sleeps |-> r.sleeps,
          ok |-> r.exit = "True",
          raised |-> r.exit \notin {"True", "none", "RequestError", "Exception"}]

\* what the sink answers to each call of one publish: one answer more than
\* the retry loop may ask for
SinkAnswers == [1..(max_retries + 1) -> SinkOutcomes]

\* the answers the monitoring thread's publishes are given: RequestError
\* some number of times, then one of the outcomes, then success
SinkBehaviours ==
    {outs \in SinkAnswers :
        \A i \in 1..max_retries :
            outs[i] # "RequestError" => \A j \in (i + 1)..(max_retries + 1) : outs[j] = "ok"}

-----------------------------------------------------------------------------
(* The monitoring thread: run_monitoring *)

MonStopped == monPc \in {"done", "init_failed"}

Ev(ev, what, kind, ok) == [ev |-> ev, what |-> what, kind |-> kind, ok |-> ok]

\* lines 242-253: the settings are read and the Adafruit IO client is made;
\* on any exception sys.exit(1) ends this thread
MonInitSettings ==
    /\ monPc = "init_settings"
    /\ LET r == read_settings_from_conf(confFile) IN
       \E clientOk \in BOOLEAN :
          IF r.ok /\ clientOk
          THEN /\ settings' = r.settings
               /\ adafruit_io_client' = TRUE
               /\ monPc' = "init_sensor"
          ELSE /\ monPc' = "init_failed"
               /\ UNCHANGED <<settings, adafruit_io_client>>
    /\ UNCHANGED <<confFile, shutdown_event, alert_states, minutes_between_reads,
                   last_read_time, current_time, reading, now, tickKind, tickLog,
                   pubCall, iters, mainPc, exitStatus>>
    /\ UNCHANGED webVars

\* lines 255-267: the sensor is started; on any exception sys.exit(1) ends
\* this thread
MonInitSensor ==
    /\ monPc = "init_sensor"
    /\ \E sensorOk \in BOOLEAN :
          IF sensorOk
          THEN /\ minutes_between_reads' = settings["MINUTES_BETWEEN_READS"].n
               /\ last_read_time' = 0
               /\ monPc' = "loop_check"
          ELSE /\ monPc' = "init_failed"
               /\ UNCHANGED <<minutes_between_reads, last_read_time>>
    /\ UNCHANGED <<confFile, shutdown_event, adafruit_io_client, alert_states,
                   settings, current_time, reading, now, tickKind, tickLog,
                   pubCall, iters, mainPc, exitStatus>>
    /\ UNCHANGED webVars

\* MonLoopCheck with the event looked at only before the first iteration
MonLoopCheck_FirstOnly ==
    /\ monPc = "loop_check"
    /\ (shutdown_event /\ iters = 0) \/ iters < MaxIters
    /\ monPc' = IF shutdown_event /\ iters = 0 THEN "done" ELSE "poll"
    /\ iters' = IF shutdown_event /\ iters = 0 THEN iters ELSE iters + 1
    /\ tickKind' = "none"
    /\ UNCHANGED <<confFile, shutdown_event, adafruit_io_client, alert_states,
                   settings, minutes_between_reads, last_read_time, current_time,
                   reading, now, tickLog, pubCall, mainPc, exitStatus>>
    /\ UNCHANGED webVars

\* line 269: while not shutdown_event.is_set()
MonLoopCheck ==
    /\ monPc = "loop_check"
    /\ shutdown_event \/ iters < MaxIters
    /\ monPc' = IF shutdown_event THEN "done" ELSE "poll"
    /\ iters' = IF shutdown_event THEN iters ELSE iters + 1
    /\ tickKind' = "none"
    /\ UNCHANGED <<confFile, shutdown_event, adafruit_io_client, alert_states,
                   settings, minutes_between_reads, last_read_time, current_time,
                   reading, now, tickLog, pubCall, mainPc, exitStatus>>
    /\ UNCHANGED webVars

\* MonPoll with the data_ready test of line 273 left out: the values are
\* read and used whether or not a sample is ready
MonPoll_NoReadyTest ==
    /\ monPc = "poll"
    /\ current_time' = now
    /\ IF now - last_read_time >= minutes_between_reads * 60
       THEN \/ /\ reading' \in Samples
               /\ tickKind' \in {"read", "nodata"}
               /\ tickLog' = <<Ev("log", "reading", "", TRUE)>>
               /\ monPc' = "eval_high_temp"
            \/ /\ tickKind' = "error"
               /\ monPc' = "except"
               /\ UNCHANGED <<reading, tickLog>>
       ELSE /\ tickKind' = "notdue"
            /\ monPc' = "sleep"
            /\ UNCHANGED <<reading, tickLog>>
    /\ UNCHANGED <<confFile, shutdown_event, adafruit_io_client, alert_states,
                   settings, minutes_between_reads, last_read_time, now, pubCall,
                   iters, mainPc, exitStatus>>
    /\ UNCHANGED webVars

\* lines 271-280: the time check, sensor.data_ready, the three values and
\* the reading's log line; the sensor may raise at any of its iters
MonPoll ==
    /\ monPc = "poll"
    /\ current_time' = now
    /\ IF now - last_read_time >= minutes_between_reads * 60
       THEN \/ /\ reading' \in Samples
               /\ tickKind' = "read"
               /\ tickLog' = <<Ev("log", "reading", "", TRUE)>>
               /\ monPc' = "eval_high_temp"
            \/ /\ tickKind' = "nodata"
               /\ monPc' = "sleep"
               /\ UNCHANGED <<reading, tickLog>>
            \/ /\ tickKind' = "error"
               /\ monPc' = "except"
               /\ UNCHANGED <<reading, tickLog>>
       ELSE /\ tickKind' = "notdue"
            /\ monPc' = "sleep"
            /\ UNCHANGED <<reading, tickLog>>
    /\ UNCHANGED <<confFile, shutdown_event, adafruit_io_client, alert_states,
                   settings, minutes_between_reads, last_read_time, now, pubCall,
                   iters, mainPc, exitStatus>>
    /\ UNCHANGED webVars

EvalPc == [high_temp |-> "eval_high_temp", low_temp |-> "eval_low_temp",
           high_co2 |-> "eval_high_co2"]

AfterEval == [high_temp |-> "eval_low_temp", low_temp |-> "eval_high_co2",
              high_co2 |-> "pub_temp"]

\* MonEval with the assignment of lines 285, 297, 309 left out
MonEval_NoLatch(q) ==
    /\ monPc = EvalPc[q]
    /\ LET cond == Condition(q, reading, settings) IN
       IF cond # alert_states[q]
       THEN \E delivered \in BOOLEAN :
               tickLog' = Append(tickLog,
                   Ev("slack", q, IF cond THEN "alert" ELSE "recovery",
                      send_slack_alert(confFile, delivered)))
       ELSE UNCHANGED tickLog
    /\ monPc' = AfterEval[q]
    /\ UNCHANGED <<confFile, shutdown_event, adafruit_io_client, alert_states, settings,
                   minutes_between_reads, last_read_time, current_time, reading,
                   now, tickKind, pubCall, iters, mainPc, exitStatus>>
    /\ UNCHANGED webVars

\* MonEval with the flag assigned only once the notification is sent: a
\* send that fails leaves the flag as it was
MonEval_FlagAfterSend(q) ==
    /\ monPc = EvalPc[q]
    /\ LET cond == Condition(q, reading, settings) IN
       IF cond # alert_states[q]
       THEN \E delivered \in BOOLEAN :
               /\ tickLog' = Append(tickLog,
                      Ev("slack", q, IF cond THEN "alert" ELSE "recovery",
                         send_slack_alert(confFile, delivered)))
               /\ alert_states' = IF send_slack_alert(confFile, delivered)
                                  THEN [alert_states EXCEPT ![q] = cond]
                                  ELSE alert_states
       ELSE UNCHANGED <<alert_states, tickLog>>
    /\ monPc' = AfterEval[q]
    /\ UNCHANGED <<confFile, shutdown_event, adafruit_io_client, settings,
                   minutes_between_reads, last_read_time, current_time, reading,
                   now, tickKind, pubCall, iters, mainPc, exitStatus>>
    /\ UNCHANGED webVars

\* lines 283-292, 295-304, 307-314: one quantity's check. The flag is set
\* and then send_slack_alert is called, which reads the file again.
MonEval(q) ==
    /\ monPc = EvalPc[q]
    /\ LET cond == Condition(q, reading, settings) IN
       IF cond # alert_states[q]
       THEN /\ alert_states' = [alert_states EXCEPT ![q] = cond]
            /\ \E delivered \in BOOLEAN :
                  tickLog' = Append(tickLog,
                      Ev("slack", q, IF cond THEN "alert" ELSE "recovery",
                         send_slack_alert(confFile, delivered)))
       ELSE UNCHANGED <<alert_states, tickLog>>
    /\ monPc' = AfterEval[q]
    /\ UNCHANGED <<confFile, shutdown_event, adafruit_io_client, settings,
                   minutes_between_reads, last_read_time, current_time, reading,
                   now, tickKind, pubCall, iters, mainPc, exitStatus>>
    /\ UNCHANGED webVars

Feeds == {"temp", "humidity", "co2"}

PubPc == [temp |-> "pub_temp", humidity |-> "pub_humidity", co2 |-> "pub_co2"]

AfterPub == [temp |-> "pub_humidity", humidity |-> "pub_co2", co2 |-> "sleep"]

\* MonPublish with the result of send_to_adafruit tested: a publish that
\* fails ends the publishes of the iteration
MonPublish_StopOnFailure(f) ==
    /\ monPc = PubPc[f]
    /\ \E outs \in SinkBehaviours :
          LET r == send_to_adafruit(adafruit_io_client, outs) IN
          /\ tickLog' = Append(tickLog, Ev("pub", f, "", TRUE))
          /\ monPc' = IF r.raised THEN "except" ELSE IF r.ok THEN AfterPub[f] ELSE "sleep"
          /\ last_read_time' = IF (f = "co2" \/ ~r.ok) /\ ~r.raised THEN current_time
                               ELSE last_read_time
    /\ UNCHANGED <<confFile, shutdown_event, adafruit_io_client, alert_states,
                   settings, minutes_between_reads, current_time, reading, now,
                   tickKind, pubCall, iters, mainPc, exitStatus>>
    /\ UNCHANGED webVars

\* lines 317-321: one send_to_adafruit call; after the third, the baseline
\* is moved to the time this tick began
MonPublish(f) ==
    /\ monPc = PubPc[f]
    /\ \E outs \in SinkBehaviours :
          LET r == send_to_adafruit(adafruit_io_client, outs) IN
          /\ tickLog' = Append(tickLog, Ev("pub", f, "", TRUE))
          /\ monPc' = IF r.raised THEN "except" ELSE AfterPub[f]
          /\ last_read_time' = IF f = "co2" /\ ~r.raised THEN current_time
                               ELSE last_read_time
    /\ UNCHANGED <<confFile, shutdown_event, adafruit_io_client, alert_states,
                   settings, minutes_between_reads, current_time, reading, now,
                   tickKind, pubCall, iters, mainPc, exitStatus>>
    /\ UNCHANGED webVars

SleepSeconds == 5

\* the locals of an iteration are dead once it ends: the model clears them
NoReading == [temperature_c |-> 0, humidity |-> 0, co2 |-> 0]

\* how long a time.sleep(5) and the iteration around it may take
Elapsed == {SleepSeconds, 60}

\* MonSleep after an iteration whose line 321 is one level out, under the
\* test of line 272 and not under the test of line 273: the baseline moves
\* whenever the poll was due and did not raise
MonSleep_BaselineWhenDue ==
    /\ monPc = "sleep"
    /\ \E d \in Elapsed : now' = now + d
    /\ monPc' = "loop_check"
    /\ tickLog' = <<>>
    /\ current_time' = 0
    /\ reading' = NoReading
    /\ last_read_time' = IF tickKind \in {"read", "nodata"} THEN current_time
                         ELSE last_read_time
    /\ UNCHANGED <<confFile, shutdown_event, adafruit_io_client, alert_states,
                   settings, minutes_between_reads, tickKind,
                   pubCall, iters, mainPc, exitStatus>>
    /\ UNCHANGED webVars

\* line 323: time.sleep(5) at the end of an iteration
MonSleep ==
    /\ monPc = "sleep"
    /\ \E d \in Elapsed : now' = now + d
    /\ monPc' = "loop_check"
    /\ tickLog' = <<>>
    /\ current_time' = 0
    /\ reading' = NoReading
    /\ UNCHANGED <<confFile, shutdown_event, adafruit_io_client, alert_states,
                   settings, minutes_between_reads, last_read_time, tickKind,
                   pubCall, iters, mainPc, exitStatus>>
    /\ UNCHANGED webVars

\* MonExcept with the exception raised again after it is logged
MonExcept_Reraise ==
    /\ monPc = "except"
    /\ monPc' = "crashed"
    /\ tickLog' = <<>>
    /\ current_time' = 0
    /\ reading' = NoReading
    /\ UNCHANGED <<confFile, shutdown_event, adafruit_io_client, alert_states,
                   settings, minutes_between_reads, last_read_time, tickKind,
                   pubCall, iters, mainPc, exitStatus, now>>
    /\ UNCHANGED webVars

\* lines 324-326: an exception of the iteration is logged, then time.sleep(5)
MonExcept ==
    /\ monPc = "except"
    /\ \E d \in Elapsed : now' = now + d
    /\ monPc' = "loop_check"
    /\ tickLog' = <<>>
    /\ current_time' = 0
    /\ reading' = NoReading
    /\ UNCHANGED <<confFile, shutdown_event, adafruit_io_client, alert_states,
                   settings, minutes_between_reads, last_read_time, tickKind,
                   pubCall, iters, mainPc, exitStatus>>
    /\ UNCHANGED webVars

Monitor ==
    \/ MonInitSettings
    \/ MonInitSensor
    \/ MonLoopCheck
    \/ MonPoll
    \/ \E q \in Quantities : MonEval(q)
    \/ \E f \in Feeds : MonPublish(f)
    \/ MonSleep
    \/ MonExcept

-----------------------------------------------------------------------------
(* The settings route: settings_route *)

FormKeys(form) == {form[i][1] : i \in 1..Len(form)}

\* lines 194-199 raise on this item: KeyError for a key the current
\* settings do not hold, ValueError for a value float() or int() refuses
ItemRaises(cur, item) ==
    \/ item[1] \notin Keys
    \/ ~ConvOk(cur[item[1]].t, item[2])

FirstRaising(form, cur) ==
    LET bad == {i \in 1..Len(form) : ItemRaises(cur, form[i])} IN
    IF bad = {} THEN 0 ELSE CHOOSE i \in bad : \A j \in bad : i <= j

\* the value new_settings ends with for key k: the last item of that key
LastValue(form, k) ==
    LET at == {i \in 1..Len(form) : form[i][1] = k}
        i == CHOOSE x \in at : \A y \in at : y <= x IN
    form[i][2]

\* Coerce with an item that raises skipped instead of answered
Coerce_SkipBad(form, cur) ==
    [exc |-> "none", key |-> "",
     new |-> [k \in Keys |->
                IF \E i \in 1..Len(form) : form[i][1] = k /\ ~ItemRaises(cur, form[i])
                THEN Conv(cur[k].t, LastValue(form, k))
                ELSE PyNone]]

\* lines 190-201: the loop over request.form.items(): new_settings, or the
\* exception of the first item that raises
Coerce(form, cur) ==
    LET i == FirstRaising(form, cur) IN
    IF i = 0
    THEN [exc |-> "none", key |-> "",
          new |-> [k \in Keys |-> IF k \in FormKeys(form)
                                  THEN Conv(cur[k].t, LastValue(form, k))
                                  ELSE PyNone]]
    ELSE [exc |-> IF form[i][1] \notin Keys THEN "KeyError" ELSE "ValueError",
          key |-> form[i][1], new |-> NoSettings]

\* lines 204-207: the file config.write leaves: the section with one option
\* per key of new_settings, each str(v)
Written(new) ==
    FileOf({k \in Keys : new[k] # PyNone},
           [k \in Keys |-> IF new[k] # PyNone THEN PyStr(new[k]) ELSE <<>>])

Response(code, key) == [code |-> code, key |-> key]

NoRequest == Request(<<>>, "")

\* the handler returns its response; its locals are gone
Answer(h, r) ==
    /\ resp' = [resp EXCEPT ![h] = r]
    /\ hpc' = [hpc EXCEPT ![h] = "idle"]
    /\ hreq' = [hreq EXCEPT ![h] = NoRequest]
    /\ hcur' = [hcur EXCEPT ![h] = NoSettings]

\* GET /settings, lines 219-224
HandleGet(h) ==
    /\ mainPc = "serving"
    /\ hpc[h] = "idle"
    /\ requests < MaxRequests
    /\ requests' = requests + 1
    /\ LET r == read_settings_from_conf(confFile) IN
       resp' = [resp EXCEPT ![h] = Response(IF r.ok THEN 200 ELSE 500, "")]
    /\ UNCHANGED <<confFile, shutdown_event, mainPc, exitStatus, hpc, hreq, hcur,
                   hnew, rebootCalls>>
    /\ UNCHANGED monVars

\* a POST /settings request reaches a handler, which has no response for
\* it yet
PostArrive(h) ==
    /\ mainPc = "serving"
    /\ hpc[h] = "idle"
    /\ requests < MaxRequests
    /\ \E req \in Requests : hreq' = [hreq EXCEPT ![h] = req]
    /\ hpc' = [hpc EXCEPT ![h] = "post_read"]
    /\ resp' = [resp EXCEPT ![h] = Response(0, "")]
    /\ requests' = requests + 1
    /\ UNCHANGED <<confFile, shutdown_event, mainPc, exitStatus, hcur, hnew,
                   rebootCalls>>
    /\ UNCHANGED monVars

\* lines 183-201: the current settings are read and the form is coerced;
\* ValueError of an item answers 400, any other exception 500 (line 215)
PostRead(h) ==
    /\ hpc[h] = "post_read"
    /\ LET r == read_settings_from_conf(confFile)
           c == Coerce(hreq[h].form, r.settings) IN
       IF ~r.ok
       THEN Answer(h, Response(500, "")) /\ UNCHANGED hnew
       ELSE IF c.exc = "ValueError"
       THEN Answer(h, Response(400, c.key)) /\ UNCHANGED hnew
       ELSE IF c.exc = "KeyError"
       THEN Answer(h, Response(500, c.key)) /\ UNCHANGED hnew
       ELSE /\ hcur' = [hcur EXCEPT ![h] = r.settings]
            /\ hnew' = [hnew EXCEPT ![h] = c.new]
            /\ hpc' = [hpc EXCEPT ![h] = "post_open"]
            /\ UNCHANGED <<resp, hreq>>
    /\ UNCHANGED <<confFile, shutdown_event, mainPc, exitStatus, requests, rebootCalls>>
    /\ UNCHANGED monVars

\* line 206: open(conf_file, 'w') truncates the file, or raises OSError
PostOpen(h) ==
    /\ hpc[h] = "post_open"
    /\ \E opened \in BOOLEAN :
          IF opened
          THEN /\ confFile' = EmptyFile
               /\ hpc' = [hpc EXCEPT ![h] = "post_write"]
               /\ UNCHANGED <<resp, hreq, hcur, hnew>>
          ELSE /\ Answer(h, Response(500, ""))
               /\ hnew' = [hnew EXCEPT ![h] = NoSettings]
               /\ UNCHANGED confFile
    /\ UNCHANGED <<shutdown_event, mainPc, exitStatus, requests, rebootCalls>>
    /\ UNCHANGED monVars

\* PostWrite with the reboot in a place every path through the handler
\* reaches: it is invoked when the write failed too
PostWrite_RebootAnyway(h) ==
    /\ hpc[h] = "post_write"
    /\ \E written \in BOOLEAN :
          IF written
          THEN /\ confFile' = Written(hnew[h])
               /\ Answer(h, Response(200, ""))
          ELSE /\ UNCHANGED confFile
               /\ Answer(h, Response(500, ""))
    /\ rebootCalls' = IF hreq[h].action = "reboot" THEN rebootCalls + 1 ELSE rebootCalls
    /\ hnew' = [hnew EXCEPT ![h] = NoSettings]
    /\ UNCHANGED <<shutdown_event, mainPc, exitStatus, requests>>
    /\ UNCHANGED monVars

\* lines 207-213: the text reaches the file when the with block closes it;
\* then the reboot, if asked for, and the answer. Or the write raises
\* OSError: the file stays as the open left it and line 215 answers 500.
PostWrite(h) ==
    /\ hpc[h] = "post_write"
    /\ \E written \in BOOLEAN :
          IF written
          THEN /\ confFile' = Written(hnew[h])
               /\ rebootCalls' = IF hreq[h].action = "reboot" THEN rebootCalls + 1
                                 ELSE rebootCalls
               /\ Answer(h, Response(200, ""))
          ELSE /\ UNCHANGED <<confFile, rebootCalls>>
               /\ Answer(h, Response(500, ""))
    /\ hnew' = [hnew EXCEPT ![h] = NoSettings]
    /\ UNCHANGED <<shutdown_event, mainPc, exitStatus, requests>>
    /\ UNCHANGED monVars

Web ==
    \E h \in Handlers :
        \/ HandleGet(h)
        \/ PostArrive(h)
        \/ PostRead(h)
        \/ PostOpen(h)
        \/ PostWrite(h)

-----------------------------------------------------------------------------
(* The main thread and the signal handler *)

mainUnchanged ==
    UNCHANGED <<confFile, adafruit_io_client, alert_states, settings,
                minutes_between_reads, last_read_time, current_time, reading,
                now, tickKind, tickLog, pubCall, iters>>

\* lines 340-341: the monitoring thread is started
MainStartThread ==
    /\ mainPc = "start"
    /\ monPc' = "init_settings"
    /\ mainPc' = "app_run"
    /\ UNCHANGED <<shutdown_event, exitStatus>>
    /\ mainUnchanged
    /\ UNCHANGED webVars

\* lines 343-349: find_available_port and app.run, which serves from then
\* on; or one of them raises, the error is logged and the finally block
\* sets the event
MainAppRun ==
    /\ mainPc = "app_run"
    /\ \E served \in BOOLEAN :
          IF served
          THEN mainPc' = "serving" /\ UNCHANGED shutdown_event
          ELSE mainPc' = "join" /\ shutdown_event' = TRUE
    /\ UNCHANGED <<exitStatus, monPc>>
    /\ mainUnchanged
    /\ UNCHANGED webVars

\* lines 345-349: app.run returns or raises after it has served. Nothing
\* in the program makes it do so: signal_handler replaces the handler that
\* would raise KeyboardInterrupt in it.
MainAppRunEnds ==
    /\ mainPc = "serving"
    /\ mainPc' = "join"
    /\ shutdown_event' = TRUE
    /\ UNCHANGED <<exitStatus, monPc>>
    /\ mainUnchanged
    /\ UNCHANGED webVars

\* MainJoin without the join of line 350
MainJoin_NoWait ==
    /\ mainPc = "join"
    /\ mainPc' = "exited"
    /\ exitStatus' = 0
    /\ UNCHANGED <<shutdown_event, monPc>>
    /\ mainUnchanged
    /\ UNCHANGED webVars

\* line 350, and the end of the script
MainJoin ==
    /\ mainPc = "join"
    /\ MonStopped
    /\ mainPc' = "exited"
    /\ exitStatus' = 0
    /\ UNCHANGED <<shutdown_event, monPc>>
    /\ mainUnchanged
    /\ UNCHANGED webVars

\* lines 329-332, installed for SIGTERM and SIGINT at lines 336-337
signal_handler ==
    /\ mainPc # "exited"
    /\ shutdown_event' = TRUE
    /\ UNCHANGED <<mainPc, exitStatus, monPc>>
    /\ mainUnchanged
    /\ UNCHANGED webVars

Main ==
    \/ MainStartThread
    \/ MainAppRun
    \/ MainJoin

-----------------------------------------------------------------------------
(* The program *)

Init ==
    /\ confFile \in InitFiles
    /\ shutdown_event = FALSE
    /\ adafruit_io_client = FALSE
    /\ alert_states = [q \in Quantities |-> FALSE]
    /\ monPc = "not_started"
    /\ settings = NoSettings
    /\ minutes_between_reads = 0
    /\ last_read_time = 0
    /\ current_time = 0
    /\ reading = NoReading
    /\ now = StartTime
    /\ tickKind = "none"
    /\ tickLog = <<>>
    /\ pubCall = NoCall
    /\ iters = 0
    /\ mainPc = "start"
    /\ exitStatus = -1
    /\ hpc = [h \in Handlers |-> "idle"]
    /\ hreq = [h \in Handlers |-> NoRequest]
    /\ hcur = [h \in Handlers |-> NoSettings]
    /\ hnew = [h \in Handlers |-> NoSettings]
    /\ resp = [h \in Handlers |-> Response(0, "")]
    /\ requests = 0
    /\ rebootCalls = 0

Next == Monitor \/ Web \/ Main \/ MainAppRunEnds \/ signal_handler

Spec == Init /\ [][Next]_vars

\* the threads are scheduled and every call made returns, except app.run,
\* which serves until something outside the program ends it
FairSpec == Spec /\ WF_vars(Monitor) /\ WF_vars(Main)

-----------------------------------------------------------------------------
(* send_to_adafruit on its own: one call, for every client state and every
   sequence of answers of the sink *)

ProgramAtRest ==
    /\ confFile = FileOf(Keys, DefaultOpts)
    /\ shutdown_event = FALSE
    /\ adafruit_io_client = FALSE
    /\ alert_states = [q \in Quantities |-> FALSE]
    /\ monPc = "not_started"
    /\ settings = NoSettings
    /\ minutes_between_reads = 0
    /\ last_read_time = 0
    /\ current_time = 0
    /\ reading = NoReading
    /\ now = StartTime
    /\ tickKind = "none"
    /\ tickLog = <<>>
    /\ iters = 0
    /\ mainPc = "start"
    /\ exitStatus = -1
    /\ hpc = [h \in Handlers |-> "idle"]
    /\ hreq = [h \in Handlers |-> NoRequest]
    /\ hcur = [h \in Handlers |-> NoSettings]
    /\ hnew = [h \in Handlers |-> NoSettings]
    /\ resp = [h \in Handlers |-> Response(0, "")]
    /\ requests = 0
    /\ rebootCalls = 0

InitPublish ==
    /\ ProgramAtRest
    /\ \E client \in BOOLEAN, outs \in SinkAnswers :
          pubCall = [NoCall EXCEPT !.client = client, !.outs = outs]

\* lines 126-168, called once
Publish ==
    /\ ~pubCall.done
    /\ LET r == send_to_adafruit(pubCall.client, pubCall.outs) IN
       pubCall' = [pubCall EXCEPT !.done = TRUE, !.calls = r.calls, !.sleeps = r.sleeps,
                                  !.ok = r.ok, !.raised = r.raised]
    /\ UNCHANGED <<confFile, shutdown_event, mainPc, exitStatus>>
    /\ UNCHANGED <<adafruit_io_client, alert_states, monPc, settings,
                   minutes_between_reads, last_read_time, current_time, reading,
                   now, tickKind, tickLog, iters>>
    /\ UNCHANGED webVars

SpecPublish == InitPublish /\ [][Publish]_vars

-----------------------------------------------------------------------------
(* The claims *)

SlackEvents(log, q) == {i \in 1..Len(log) : log[i].ev = "slack" /\ log[i].what = q}

Notified(q, kind) == {Ev("slack", q, kind, ok) : ok \in BOOLEAN}

\* C1: edge-triggering. The step that evaluates a quantity leaves its flag
\* equal to the reading's condition and calls the notifier exactly once if
\* the flag changed (an alert when it became armed, a recovery when it
\* became unarmed) and not at all if it did not; no other step changes the
\* flag or notifies for the quantity.
C1_EdgeTriggered ==
    [][\A q \in Quantities :
          IF monPc = EvalPc[q] /\ monPc' # monPc
          THEN /\ alert_states'[q] = Condition(q, reading, settings)
               /\ IF alert_states'[q] # alert_states[q]
                  THEN \E e \in Notified(q, IF alert_states'[q] THEN "alert" ELSE "recovery") :
                          tickLog' = Append(tickLog, e)
                  ELSE tickLog' = tickLog
          ELSE /\ alert_states'[q] = alert_states[q]
               /\ Cardinality(SlackEvents(tickLog', q)) <= Cardinality(SlackEvents(tickLog, q))
      ]_vars

\* a second exceeding reading in a row has been evaluated for high_temp:
\* the flag is armed from the reading before and nothing was sent for it
C1_Witness ==
    /\ monPc = "eval_low_temp"
    /\ iters = 2
    /\ alert_states["high_temp"]
    /\ Condition("high_temp", reading, settings)
    /\ SlackEvents(tickLog, "high_temp") = {}

\* C2: config hot-reload. When a tick takes its sample, the high
\* temperature threshold and the poll interval it works with are the ones
\* the file holds at that moment (whenever the file holds a complete record).
C2_HotReload ==
    [][(monPc = "poll" /\ monPc' = "eval_high_temp"
            /\ read_settings_from_conf(confFile).ok)
        => LET stored == read_settings_from_conf(confFile).settings IN
           /\ settings'["SENSOR_THRESHOLD_TEMP"] = stored["SENSOR_THRESHOLD_TEMP"]
           /\ minutes_between_reads' = stored["MINUTES_BETWEEN_READS"].n
      ]_vars

\* the items of a form whose key is a setting and whose value does not
\* convert to that setting's type
Unparseable(form) ==
    {i \in 1..Len(form) : form[i][1] \in Keys /\ ~ConvOk(KeyType(form[i][1]), form[i][2])}

\* the items of a form whose key is no setting
UnknownKey(form) == {i \in 1..Len(form) : form[i][1] \notin Keys}

\* the first item of a form the request is refused for
FirstOffending(form) ==
    CHOOSE i \in Unparseable(form) \cup UnknownKey(form) :
        \A j \in Unparseable(form) \cup UnknownKey(form) : i <= j

C4_MergedWrite ==
    [][\A h \in Handlers :
          (hpc[h] = "post_write" /\ hpc'[h] = "idle" /\ resp'[h].code = 200)
          => /\ read_settings_from_conf(confFile').ok
             /\ \A k \in Keys :
                   read_settings_from_conf(confFile').settings[k]
                       = IF k \in FormKeys(hreq[h].form) THEN hnew[h][k] ELSE hcur[h][k]
      ]_vars

\* a step that reads the configuration file
ReadsFile ==
    \/ monPc = "init_settings" /\ monPc' # monPc
    \/ \E q \in Quantities : monPc = EvalPc[q] /\ Len(tickLog') > Len(tickLog)
    \/ \E h \in Handlers : hpc[h] = "post_read" /\ hpc'[h] # "post_read"
    \/ \E h \in Handlers : hpc[h] = "idle" /\ hpc'[h] = "idle" /\ requests' # requests

\* C5: no partial write observable. No read of the file finds it between
\* the open that truncates it and the close that fills it.
C5_NoPartialRead == [][ReadsFile => confFile # EmptyFile]_vars

\* the sink answers RequestError to every call
AlwaysRetryable == \A i \in DOMAIN pubCall.outs : pubCall.outs[i] = "RequestError"

\* C6: retry bound. A publish whose sink answers a retryable failure to
\* every call has called the sink exactly 3 times and has returned failure
\* without raising.
C6_RetryBound ==
    (pubCall.done /\ pubCall.client /\ AlwaysRetryable)
    => /\ pubCall.calls = 3
       /\ ~pubCall.ok
       /\ ~pubCall.raised

C6_Witness ==
    /\ pubCall.done /\ pubCall.client /\ AlwaysRetryable
    /\ pubCall.calls = 3 /\ pubCall.sleeps = 2 /\ ~pubCall.ok

\* the place of each position of the monitoring thread in the order in which
\* run_monitoring goes through its statements: startup, the body of one
\* iteration (lines 270-326), the loop test, the end
Position(pc) ==
    CASE pc = "not_started" -> 0
      [] pc = "init_settings" -> 1
      [] pc = "init_sensor" -> 2
      [] pc = "poll" -> 3
      [] pc = "eval_high_temp" -> 4
      [] pc = "eval_low_temp" -> 5
      [] pc = "eval_high_co2" -> 6
      [] pc = "pub_temp" -> 7
      [] pc = "pub_humidity" -> 8
      [] pc = "pub_co2" -> 9
      [] pc \in {"sleep", "except"} -> 10
      [] pc = "loop_check" -> 11
      [] pc \in {"done", "init_failed"} -> 12
      [] OTHER -> 0

\* C7: shutdown. With the event set, the loop test does not begin another
\* iteration, and the monitoring thread comes to its end: every step it
\* takes moves it forward through the iteration under way and never back
\* into a new one, and until it has ended it always has a step to take.
C7_Shutdown ==
    /\ [][(shutdown_event /\ monPc = "loop_check") => monPc' \in {"loop_check", "done"}]_vars
    /\ [][(shutdown_event /\ monPc' # monPc) => Position(monPc') > Position(monPc)]_vars
    /\ []((shutdown_event /\ monPc # "not_started" /\ ~MonStopped) => ENABLED Monitor)

\* the event was set while the second iteration was at its publishes, and
\* the loop has ended
C7_Witness == shutdown_event /\ monPc = "done" /\ iters = 2 /\ tickKind = "none"
                /\ last_read_time > StartTime

\* C8: fatal startup. Once the settings, the telemetry client or the sensor
\* have failed at startup, the control surface takes up no request, and the
\* status the process exits with is not 0.
C8_FatalStartup ==
    [][monPc = "init_failed"
        => /\ requests' = requests
           /\ mainPc' = "exited" => exitStatus' # 0
      ]_vars

LoopPcs == {"loop_check", "poll", "eval_high_temp", "eval_low_temp", "eval_high_co2",
            "pub_temp", "pub_humidity", "pub_co2", "sleep", "except"}

\* C9: tick error containment. Once in the loop, the monitoring thread
\* stays in it until the loop test finds the event set: an iteration that
\* fails goes to the handler of line 324, which goes back to the loop test;
\* and the process exits only after the event is set and the thread ended.
C9_ErrorContained ==
    [][/\ monPc \in LoopPcs => monPc' \in LoopPcs \cup {"done"}
       /\ (monPc \in LoopPcs /\ monPc' = "done") => (monPc = "loop_check" /\ shutdown_event)
       /\ tickKind' = "error" /\ tickKind # "error" => monPc' = "except"
       /\ (monPc = "except" /\ monPc' # "except") => monPc' = "loop_check"
       /\ (mainPc' = "exited" /\ mainPc # "exited") => (shutdown_event /\ monPc \notin LoopPcs)
      ]_vars

\* an iteration failed and the thread is back at the loop test, with
\* another iteration to come
C9_Witness == monPc = "loop_check" /\ tickKind = "error" /\ ~shutdown_event /\ iters < MaxIters

\* C10: skip on no data. From the step that finds no sample ready to the
\* end of that iteration nothing is logged, evaluated, sent or published,
\* and the three flags stay as they are.
C10_SkipOnNoData ==
    [][tickKind' = "nodata"
        => /\ alert_states' = alert_states
           /\ tickLog' = <<>>
           /\ (monPc' # monPc => monPc' \in {"sleep", "loop_check"})
      ]_vars

\* a poll that was due found no sample and the iteration has ended, with a
\* flag armed by the iteration before
C10_Witness ==
    /\ tickKind = "nodata" /\ monPc = "loop_check" /\ iters = 2
    /\ alert_states["high_temp"]

\* the attempts of a publish that the sink answers with a failure that is
\* not retryable
Terminal == {i \in 1..3 : pubCall.outs[i] = "Exception"}

\* C11: non-retryable failure. A publish whose k-th attempt is the first to
\* meet a failure that is not retryable, every attempt before it having met
\* a retryable one, has called the sink k times and slept k - 1 times (once
\* after each retryable failure and not after the terminal one) and has
\* returned failure.
C11_TerminalFailure ==
    \A k \in Terminal :
        (pubCall.done /\ pubCall.client
            /\ \A i \in 1..(k - 1) : pubCall.outs[i] = "RequestError")
        => /\ pubCall.calls = k
           /\ pubCall.sleeps = k - 1
           /\ ~pubCall.ok
           /\ ~pubCall.raised

\* a retryable failure, then a terminal one with an attempt still left
C11_Witness ==
    /\ pubCall.done /\ pubCall.client
    /\ pubCall.outs[1] = "RequestError" /\ pubCall.outs[2] = "Exception"
    /\ pubCall.outs[3] = "ok"
    /\ pubCall.calls = 2 /\ pubCall.sleeps = 1 /\ ~pubCall.ok

\* C19: retry stops at first success. A publish makes at most 3 calls; it
\* returns success exactly when one of the calls it made succeeded, and that
\* call is its last; every call before the last met a retryable failure and
\* was followed by one sleep, and nothing is slept after the last call.
C19_StopAtSuccess ==
    pubCall.done
    => /\ pubCall.calls <= 3
       /\ pubCall.ok <=> \E i \in 1..pubCall.calls : pubCall.outs[i] = "ok"
       /\ \A i \in 1..(pubCall.calls - 1) : pubCall.outs[i] = "RequestError"
       /\ pubCall.sleeps = IF pubCall.calls = 0 THEN 0 ELSE pubCall.calls - 1
       /\ pubCall.client => pubCall.calls >= 1
       /\ (pubCall.calls \in 1..2 /\ ~pubCall.ok)
             => pubCall.outs[pubCall.calls] = "Exception"

\* success at the second attempt, with a failure waiting at the third
C19_Witness ==
    /\ pubCall.done /\ pubCall.client
    /\ pubCall.outs[1] = "RequestError" /\ pubCall.outs[2] = "ok"
    /\ pubCall.outs[3] = "RequestError"
    /\ pubCall.calls = 2 /\ pubCall.sleeps = 1 /\ pubCall.ok

\* C12: process exit liveness. Once the shutdown event is set, as the
\* termination signal sets it, and the monitoring loop has found it set and
\* ended, the process comes to its exit.
C12_ExitFollows == (shutdown_event /\ monPc = "done") ~> (mainPc = "exited")

\* C13: exit ordering. The main thread leaves app.run only into the finally
\* block, with the event set; it exits only from the join, and only when
\* the monitoring thread has ended; and the thread takes no step after the
\* exit.
C13_ExitOrdering ==
    [][/\ (mainPc' = "join" /\ mainPc # "join")
            => (mainPc \in {"app_run", "serving"} /\ shutdown_event')
       /\ (mainPc' = "exited" /\ mainPc # "exited")
            => (mainPc = "join" /\ shutdown_event /\ MonStopped)
       /\ mainPc = "exited" => (monPc' = monPc /\ MonStopped)
      ]_vars

\* app.run ended while an iteration was under way; the thread finished the
\* iteration, found the event set, and the process exited after it
C13_Witness ==
    /\ mainPc = "exited" /\ monPc = "done" /\ shutdown_event
    /\ iters >= 1 /\ requests >= 1

\* C14: poll interval positivity. Whenever the file holds a record that
\* loads, its MINUTES_BETWEEN_READS is greater than 0, and so is the
\* interval the loop works with.
C14_IntervalPositive ==
    /\ ReadOk(confFile)
          => read_settings_from_conf(confFile).settings["MINUTES_BETWEEN_READS"].n > 0
    /\ monPc \in LoopPcs => minutes_between_reads > 0

\* C15: reboot ordering. The reboot is invoked only by the step of a
\* request with action=reboot that has put the request's record in the
\* file, and that request is answered 200; a request answered with an error
\* invokes none.
C15_RebootAfterWrite ==
    [][/\ rebootCalls' # rebootCalls
            => \E h \in Handlers :
                  /\ hpc[h] = "post_write" /\ hreq[h].action = "reboot"
                  /\ confFile' = Written(hnew[h])
                  /\ resp'[h].code = 200
                  /\ rebootCalls' = rebootCalls + 1
       /\ \A h \in Handlers :
             (hpc[h] # "idle" /\ hpc'[h] = "idle" /\ resp'[h].code # 200)
                => rebootCalls' = rebootCalls
      ]_vars

\* the reboot was invoked once, by a request answered 200 whose record,
\* with the threshold it submitted, is in the file
C15_Witness ==
    \E h \in Handlers :
        /\ rebootCalls = 1
        /\ hpc[h] = "idle" /\ resp[h].code = 200
        /\ ReadOk(confFile)
        /\ read_settings_from_conf(confFile).settings["SENSOR_THRESHOLD_TEMP"].n = 770

\* C16: response classes. With a record that loads, a POST whose form has
\* a value that does not convert or a key that is no setting is answered
\* with a 4xx status when the coercion loop ends it; and the step that
\* reads the record and coerces the form answers with a 5xx status only
\* when the record does not load.
C16_ResponseClasses ==
    [][\A h \in Handlers :
          (hpc[h] = "post_read" /\ hpc'[h] = "idle")
          => /\ (ReadOk(confFile)
                    /\ Unparseable(hreq[h].form) \cup UnknownKey(hreq[h].form) # {})
                 => resp'[h].code \in 400..499
             /\ resp'[h].code \in 500..599 => ~ReadOk(confFile)
      ]_vars

\* C17: timer baseline. The baseline changes only in the step that ends the
\* publishes of an iteration that read a sample, and becomes the time that
\* iteration began; throughout an iteration that found no sample or raised
\* it stays as it is; a poll whose interval has passed is never put off as
\* not due; and a sample is read only when at least the interval has
\* passed since the baseline, which is the time of the read before.
C17_TimerBaseline ==
    [][/\ (last_read_time' # last_read_time)
            => /\ monPc = "pub_co2" /\ monPc' = "sleep" /\ tickKind = "read"
               /\ last_read_time' = current_time
       /\ tickKind' \in {"nodata", "error", "notdue"} => last_read_time' = last_read_time
       /\ (monPc = "poll" /\ monPc' # "poll"
              /\ now - last_read_time >= minutes_between_reads * 60)
            => tickKind' # "notdue"
       /\ (monPc = "poll" /\ tickKind' = "read")
            => current_time' - last_read_time >= minutes_between_reads * 60
      ]_vars

\* the first iteration read a sample and moved the baseline; the second
\* was due, found no sample, and has ended with the baseline where it was
C17_Witness ==
    /\ monPc = "loop_check" /\ iters = 2 /\ tickKind = "nodata"
    /\ last_read_time = StartTime
    /\ now - last_read_time >= minutes_between_reads * 60

\* the entries of a log that are publishes
Pubs(log) == SelectSeq(log, LAMBDA e : e.ev = "pub")

\* C18: telemetry per poll. An iteration that read a sample has, when it
\* reaches its sleep, made exactly three publishes, of temperature, humidity
\* and CO2 in that order, and they are the last three things it did, after
\* the log line and every notification; and no step of such an iteration
\* leaves the publishes before the third is made.
C18_ThreePublishes ==
    /\ [](( monPc = "sleep" /\ tickKind = "read")
            => /\ Len(tickLog) >= 4
               /\ [i \in 1..3 |-> tickLog[Len(tickLog) - 3 + i]]
                     = <<Ev("pub", "temp", "", TRUE), Ev("pub", "humidity", "", TRUE),
                         Ev("pub", "co2", "", TRUE)>>
               /\ Len(Pubs(tickLog)) = 3
               /\ tickLog[1].ev = "log")
    /\ [][(tickKind = "read" /\ monPc' = "sleep" /\ monPc # "sleep")
            => monPc = "pub_co2"]_vars

\* an iteration whose alert could not be delivered has made its three
\* publishes all the same
C18_Witness ==
    /\ monPc = "sleep" /\ tickKind = "read"
    /\ Len(tickLog) = 5
    /\ tickLog[2] = Ev("slack", "high_temp", "alert", FALSE)
    /\ tickLog[5] = Ev("pub", "co2", "", TRUE)

\* C20: alarm state independent of delivery outcome. The step that
\* evaluates a quantity leaves its flag equal to the reading's condition
\* also when the notification it sent failed; once the three quantities are
\* evaluated every flag equals its condition for the rest of the iteration;
\* and a quantity whose flag already equals the condition is not notified.
C20_FlagRegardlessOfDelivery ==
    /\ [][\A q \in Quantities :
             (monPc = EvalPc[q] /\ monPc' # monPc)
             => /\ alert_states'[q] = Condition(q, reading, settings)
                /\ (Len(tickLog') > Len(tickLog) /\ ~tickLog'[Len(tickLog')].ok)
                      => alert_states'[q] # alert_states[q]
                /\ alert_states[q] = Condition(q, reading, settings)
                      => tickLog' = tickLog
          ]_vars
    /\ []((tickKind = "read" /\ monPc \in {"pub_temp", "pub_humidity", "pub_co2", "sleep"})
            => \A q \in Quantities : alert_states[q] = Condition(q, reading, settings))

\* the alert for high_temp failed because a request had the file open for
\* writing when send_slack_alert read it, and the flag is armed
C20_Witness ==
    /\ monPc = "eval_low_temp"
    /\ confFile = EmptyFile
    /\ tickLog = <<Ev("log", "reading", "", TRUE), Ev("slack", "high_temp", "alert", FALSE)>>
    /\ alert_states["high_temp"]
    /\ Condition("high_temp", reading, settings)

====
